---- MODULE Spec2Model ----
(***************************************************************************)
(* rusty-remote-runner: the retention sweeper (cleanup.rs), the            *)
(* request-to-process pipeline (routes.rs, process.rs) and the startup of  *)
(* the server (main.rs) as a state machine over the shared working         *)
(* directory; dir_size over directory trees.                               *)
(***************************************************************************)
EXTENDS Integers, Sequences, FiniteSets, TLC

(* ------------------------------ bounds -------------------------------- *)
\* Top-level entries a workspace starts with.
MaxEntries == 3
\* The clock stops at MaxTime.
MaxTime == 3
\* The count of failed sweeps saturates here.
MaxFailed == 2

\* Request identifiers (fastrand::u64) range over 1..MaxId.
MaxId == 2
\* Requests the server accepts in one run.
MaxRequests == 2
\* Connections handled at the same time.
MaxSlots == 2

\* Depth of the directory trees dir_size is called on, and entries per directory.
MaxDepth == 2
MaxKids == 2
\* Files, directories and links under a path whose walk is followed step by
\* step, and the symbolic links the system follows in resolving one path.
MaxNodes == 4
MaxSymlinks == 2

\* Recursive sizes in bytes an entry may have.
Sizes == {3, 5, 10}
\* Values of --cleanup-max-age; {} is None.
MaxAges == {{}, {1}}
\* Values of --cleanup-max-size in bytes; {} is None.
MaxSizes == {{}, {6}}
\* Modification times the entries of a starting workspace may have.
Times == {0, 1, 2}

(* ------------------------------ state --------------------------------- *)
VARIABLES
    ws,          \* the working directory: entry name -> [kind, modified, size, fault, data]
    clock,       \* SystemTime::now()
    max_age,     \* Option<Duration>: {} or {d}
    max_size,    \* Option<usize>: {} or {m}
    spc,         \* where the cleanup task is: "tick", "age_loop", "size_open", "size_loop"
    now,         \* cleanup_endpoint: let now
    rd,          \* cleanup_endpoint: entries the ReadDir of the age pass has not yet returned
    entries,     \* cleanup_endpoint: the sorted Vec of the size pass
    idx,         \* position of the for loop in entries
    total_size_seen,
    last,        \* how the last call of cleanup_endpoint returned: "none", "Ok", "Err"
    failed,      \* number of "cleanup failed" warnings logged (saturating)
    ws0,         \* history: ws when the running (or last) sweep started
    listed,      \* history: whether the size pass of this sweep has listed the directory
    sized,       \* history: names whose dir_size was computed in this sweep
    deletedA,    \* history: names the age pass of this sweep deleted
    deletedB,    \* history: names the size pass of this sweep deleted
    failedDel,   \* history: names whose removal failed in this sweep
    quiet,       \* history: nothing but the sweeper touched ws since the last sweep returned
    tickAt,      \* history: clock when the running (or last) sweep started
    repeat,      \* history: "Ok"/"Err" (result of the sweep before) when this sweep began with
                 \* ws as that sweep left it and the clock unchanged, else "no"
    bash_path,   \* Config.bash_path: {} or {path}
    powershell_path, \* Config.powershell_path: {} or {path}
    windows,     \* cfg!(windows)
    req,         \* the request each connection slot is handling, and how far it is
    served,      \* number of requests accepted so far
    root,        \* whether the working directory exists
    mpc,         \* where main is: "create_dir", "start_cleanup", "serve", "serving", "panicked"
    tree,        \* dir_size: the path it is called with, as the tree found there
    measured,    \* dir_size: {} or {the value returned}
    fs,          \* dir_size step by step: the nodes under the path, node 1 the path itself
    stack,       \* dir_size step by step: the calls that are reading a directory
    visits       \* history: calls of dir_size that found each node (saturating at 2)

sweepVars == <<spc, now, rd, entries, idx, total_size_seen, last, failed,
               ws0, listed, sized, deletedA, deletedB, failedDel,
               quiet, tickAt, repeat>>
config == <<bash_path, powershell_path, windows>>
reqVars == <<req, served>>
mainVars == <<root, mpc>>
walkVars == <<fs, stack, visits>>
sizeVars == <<tree, measured, walkVars>>
vars == <<ws, clock, max_age, max_size, sweepVars, config, reqVars, mainVars, sizeVars>>

(* --------------------------- the directory ---------------------------- *)
Artifact(i) == <<"artifact", i, "">>

\* What DirEntry::file_type says of an entry; "other" is neither file nor
\* directory (a symlink), and its size is what fs::metadata, which follows
\* the link, reports.
Kinds == {"file", "dir", "other"}
Faults == {"none", "meta", "delete"}
\* What an entry that is not a plain fault-free file can be.
Specials ==
    { [kind |-> "dir",   fault |-> "none"],
      [kind |-> "other", fault |-> "none"],
      [kind |-> "file",  fault |-> "meta"],
      [kind |-> "file",  fault |-> "delete"] }
Plain == [kind |-> "file", fault |-> "none"]

Min(a, b) == IF a < b THEN a ELSE b

\* std::fs::Metadata::modified of a directory entry.
Modified(dir, nm) == dir[nm].modified

\* Mutant of Age: the distance between the two times, whichever is later
\* (the duration the error of duration_since carries).
Age_distance(t, modified) == IF t >= modified THEN t - modified ELSE modified - t

\* now.duration_since(modified).unwrap_or(Duration::ZERO)
Age(t, modified) == IF t >= modified THEN t - modified ELSE 0

\* Mutant of age_rule: an unset max_age is taken as Duration::ZERO.
age_rule_unwrap_or_default == IF max_age = {} THEN {0} ELSE max_age

\* if let Some(max_age) = max_age: the age rule in force, if any
age_rule == max_age

\* if let Some(max_size) = max_size: the size rule in force, if any
size_rule == max_size

\* if now.duration_since(modified).unwrap_or(Duration::ZERO) > max_age
too_old(t, modified, a) == Age(t, modified) > a

\* Mutant of within_max: every entry is measured, whatever has been seen.
within_max_always(total, m) == TRUE

\* if total_size_seen <= max_size: the size of this entry is still computed
within_max(total, m) == total <= m

\* Mutant of over_max: an entry that fills the budget exactly is removed too.
over_max_at_limit(total, m) == total >= m

\* if total_size_seen > max_size: this entry is removed
over_max(total, m) == total > m

\* dir_size: the bytes under a path; zero when its metadata cannot be read.
dir_size(dir, nm) ==
    IF nm \notin DOMAIN dir THEN 0
    ELSE IF dir[nm].fault = "meta" THEN 0
    ELSE dir[nm].size

\* The directory without one entry (remove_file, remove_dir_all).
Remove(dir, nm) == [x \in (DOMAIN dir) \ {nm} |-> dir[x]]

(* Permutations of a finite set as sequences: the orders a ReadDir may yield. *)
Orders(S) ==
    { f \in [1..Cardinality(S) -> S] : \A i, j \in 1..Cardinality(S) : i # j => f[i] # f[j] }

\* Insert x into the newest-first sequence s behind every entry not older than it.
RECURSIVE InsertNewestFirst(_, _, _)
InsertNewestFirst(dir, s, x) ==
    IF s = <<>> THEN <<x>>
    ELSE IF Modified(dir, Head(s)) >= Modified(dir, x)
         THEN <<Head(s)>> \o InsertNewestFirst(dir, Tail(s), x)
         ELSE <<x>> \o s

\* entries.sort_by_key(|(_, modified)| Reverse(*modified)): a stable sort.
RECURSIVE sort_by_key(_, _)
sort_by_key(dir, s) ==
    IF s = <<>> THEN <<>>
    ELSE InsertNewestFirst(dir, sort_by_key(dir, SubSeq(s, 1, Len(s) - 1)), s[Len(s)])

(* ------------------------- the cleanup task --------------------------- *)
\* Mutant of Return: an Err ends the task (the loop is left).
Return_stops(r) ==
    /\ spc' = IF r = "Err" THEN "stopped" ELSE "tick"
    /\ last' = r
    /\ failed' = IF r = "Err" THEN Min(failed + 1, MaxFailed) ELSE failed
    /\ quiet' = TRUE

\* cleanup_endpoint returns r to the loop of start_cleanup_task, which logs an
\* Err ("cleanup failed") and awaits the next tick.
Return(r) ==
    /\ spc' = "tick"
    /\ last' = r
    /\ failed' = IF r = "Err" THEN Min(failed + 1, MaxFailed) ELSE failed
    /\ quiet' = TRUE

\* Mutant of Delete: the sweeper passes over a script file whose handler has
\* not returned yet (a lock between the handlers and the sweeper).
Delete_locked(nm, pass) ==
    IF /\ ws[nm].kind \in {"dir", "file"}
       /\ ~\E r \in DOMAIN req : /\ req[r].pc \in {"dispatch", "running", "executing", "hung"}
                                  /\ req[r].wrote = <<nm>>
    THEN IF ws[nm].fault = "delete"
         THEN /\ Return("Err")
              /\ failedDel' = failedDel \cup {nm}
              /\ UNCHANGED <<ws, deletedA, deletedB>>
         ELSE /\ ws' = Remove(ws, nm)
              /\ deletedA' = IF pass = "A" THEN deletedA \cup {nm} ELSE deletedA
              /\ deletedB' = IF pass = "B" THEN deletedB \cup {nm} ELSE deletedB
              /\ UNCHANGED <<spc, last, failed, quiet, failedDel>>
    ELSE UNCHANGED <<ws, deletedA, deletedB, spc, last, failed, quiet, failedDel>>

\* Mutant of Delete: the entry is removed whatever file_type says it is.
Delete_any_kind(nm, pass) ==
    IF ws[nm].fault = "delete"
    THEN /\ Return("Err")
         /\ failedDel' = failedDel \cup {nm}
         /\ UNCHANGED <<ws, deletedA, deletedB>>
    ELSE /\ ws' = Remove(ws, nm)
         /\ deletedA' = IF pass = "A" THEN deletedA \cup {nm} ELSE deletedA
         /\ deletedB' = IF pass = "B" THEN deletedB \cup {nm} ELSE deletedB
         /\ UNCHANGED <<spc, last, failed, quiet, failedDel>>

\* remove_dir_all / remove_file on entry nm in the age pass (A) or size pass (B):
\* behind file_type, so an entry that is neither is passed over; a failure is
\* propagated by the ? operator.
Delete(nm, pass) ==
    IF ws[nm].kind \in {"dir", "file"}
    THEN IF ws[nm].fault = "delete"
         THEN /\ Return("Err")
              /\ failedDel' = failedDel \cup {nm}
              /\ UNCHANGED <<ws, deletedA, deletedB>>
         ELSE /\ ws' = Remove(ws, nm)
              /\ deletedA' = IF pass = "A" THEN deletedA \cup {nm} ELSE deletedA
              /\ deletedB' = IF pass = "B" THEN deletedB \cup {nm} ELSE deletedB
              /\ UNCHANGED <<spc, last, failed, quiet, failedDel>>
    ELSE UNCHANGED <<ws, deletedA, deletedB, spc, last, failed, quiet, failedDel>>

\* Mutant of awaiting_tick: a tick of the interval starts a sweep whether or
\* not the one before has returned (a task per tick).
awaiting_tick_or_sweeping == TRUE

\* The cleanup task is at interval.tick().await: the call of cleanup_endpoint
\* of the tick before has returned.
awaiting_tick == spc = "tick"

\* interval.tick() fires and cleanup_endpoint starts: with max_age set it opens
\* the directory and reads the time, otherwise it goes on to the size pass.
Tick ==
    /\ mpc \in {"serve", "serving"}
    /\ awaiting_tick
    /\ ws0' = ws
    /\ tickAt' = clock
    /\ repeat' = IF quiet /\ last # "none" /\ clock = tickAt THEN last ELSE "no"
    /\ listed' = FALSE
    /\ sized' = {}
    /\ deletedA' = {}
    /\ deletedB' = {}
    /\ failedDel' = {}
    /\ entries' = <<>>
    /\ idx' = 0
    /\ total_size_seen' = 0
    /\ IF age_rule = {}
       THEN /\ spc' = "size_open"
            /\ UNCHANGED <<rd, now>>
       ELSE /\ spc' = "age_loop"
            /\ rd' = DOMAIN ws
            /\ now' = clock
    /\ UNCHANGED <<ws, clock, max_age, max_size, last, failed, quiet, config, mainVars, sizeVars, reqVars>>

\* One iteration of the while loop of the age pass: the ReadDir returns some
\* entry it has not returned yet (in no particular order), or None.
AgeNext ==
    /\ spc = "age_loop"
    /\ IF rd = {}
       THEN /\ spc' = "size_open"
            /\ UNCHANGED <<ws, rd, last, failed, quiet, deletedA, deletedB, failedDel>>
       ELSE \E nm \in rd :
              /\ rd' = rd \ {nm}
              /\ IF ws[nm].fault = "meta"
                 THEN /\ Return("Err")
                      /\ UNCHANGED <<ws, deletedA, deletedB, failedDel>>
                 ELSE IF \E a \in age_rule : too_old(now, Modified(ws, nm), a)
                      THEN Delete(nm, "A")
                      ELSE UNCHANGED <<ws, deletedA, deletedB, spc, last, failed, quiet,
                                       failedDel>>
    /\ UNCHANGED <<clock, max_age, max_size, now, entries, idx, total_size_seen,
                   ws0, listed, sized, tickAt, repeat, config, mainVars, sizeVars, reqVars>>

\* Mutant of SizeOpen: the entries are those of the directory as it was when
\* the sweep began (the listing is taken before the age pass).
SizeOpen_lists_first ==
    /\ spc = "size_open"
    /\ IF size_rule = {}
       THEN /\ Return("Ok")
            /\ UNCHANGED <<entries, idx, listed>>
       ELSE IF \E nm \in DOMAIN ws0 : ws0[nm].fault = "meta"
            THEN /\ Return("Err")
                 /\ UNCHANGED <<entries, idx, listed>>
            ELSE \E ord \in Orders(DOMAIN ws0) :
                   /\ entries' = sort_by_key(ws0, ord)
                   /\ idx' = 1
                   /\ listed' = TRUE
                   /\ spc' = "size_loop"
                   /\ UNCHANGED <<last, failed, quiet>>
    /\ UNCHANGED <<ws, clock, max_age, max_size, now, rd, total_size_seen,
                   ws0, sized, deletedA, deletedB, failedDel, tickAt, repeat,
                   config, mainVars, sizeVars, reqVars>>

\* The size pass opens the directory, collects (entry, modified) and sorts;
\* with max_size unset cleanup_endpoint returns Ok.
SizeOpen ==
    /\ spc = "size_open"
    /\ IF size_rule = {}
       THEN /\ Return("Ok")
            /\ UNCHANGED <<entries, idx, listed>>
       ELSE IF \E nm \in DOMAIN ws : ws[nm].fault = "meta"
            THEN /\ Return("Err")
                 /\ UNCHANGED <<entries, idx, listed>>
            ELSE \E ord \in Orders(DOMAIN ws) :
                   /\ entries' = sort_by_key(ws, ord)
                   /\ idx' = 1
                   /\ listed' = TRUE
                   /\ spc' = "size_loop"
                   /\ UNCHANGED <<last, failed, quiet>>
    /\ UNCHANGED <<ws, clock, max_age, max_size, now, rd, total_size_seen,
                   ws0, sized, deletedA, deletedB, failedDel, tickAt, repeat,
                   config, mainVars, sizeVars, reqVars>>

\* One iteration of the for loop of the size pass, newest entry first.
SizeNext ==
    /\ spc = "size_loop"
    /\ IF idx > Len(entries)
       THEN /\ Return("Ok")
            /\ UNCHANGED <<ws, idx, total_size_seen, sized, deletedA, deletedB, failedDel>>
       ELSE LET nm == entries[idx]
                measure == \E m \in size_rule : within_max(total_size_seen, m)
                seen == IF measure THEN total_size_seen + dir_size(ws, nm)
                        ELSE total_size_seen
            IN  /\ idx' = idx + 1
                /\ total_size_seen' = seen
                /\ sized' = IF measure THEN sized \cup {nm} ELSE sized
                /\ IF \E m \in size_rule : over_max(seen, m)
                   THEN Delete(nm, "B")
                   ELSE UNCHANGED <<ws, deletedA, deletedB, spc, last, failed, quiet,
                                    failedDel>>
    /\ UNCHANGED <<clock, max_age, max_size, now, rd, entries, ws0, listed, tickAt, repeat,
                   config, mainVars, sizeVars, reqVars>>

\* Time passes while the task awaits its interval.
TimePasses ==
    /\ spc = "tick"
    /\ clock < MaxTime
    /\ clock' = clock + 1
    /\ UNCHANGED <<ws, max_age, max_size, sweepVars, config, mainVars, sizeVars, reqVars>>

(* ----------------------------- requests ------------------------------- *)
Interpreters == {"Bash", "Cmd", "Powershell"}
Slots == 1..MaxSlots
Ids == 1..MaxId
\* Programs found on the execution path of the server's machine.
Installed == {"echo", "bash", "pwsh"}
\* The bytes of "echo ".
Echo == <<101, 99, 104, 111, 32>>
\* Request bodies (bytes): echo H, pwd, and a byte that is not UTF-8.
Bodies == {Echo \o <<72>>, <<112, 119, 100>>, <<255>>}
\* Bytes a child may have written to stdout or to stderr when it exits.
Outputs == {<<>>, <<72, 10>>}
\* How a child can end: with an exit code, or by a signal (no code).
ExitCodes == {{}, {0}, {3}}

\* Every Result a child that was launched can end with.
Outcomes ==
    { [ok |-> TRUE, code |-> code, stdout |-> out, stderr |-> err, error |-> ""] :
      code \in ExitCodes, out \in Outputs \cup {<<72, 13, 10>>},
      err \in Outputs }

RunRequests ==
    [command : {"echo", "missing"}, arguments : {<<>>, <<"a", "-b">>},
     return_stdout : BOOLEAN, return_stderr : BOOLEAN]
RunScriptQueries ==
    [interpreter : Interpreters, return_stdout : BOOLEAN, return_stderr : BOOLEAN]

\* String::from_utf8_lossy: bytes that are not UTF-8 become U+FFFD.
RECURSIVE Lossy(_)
Lossy(bytes) ==
    IF bytes = <<>> THEN <<>>
    ELSE (IF Head(bytes) < 128 THEN <<Head(bytes)>> ELSE <<239, 191, 189>>)
         \o Lossy(Tail(bytes))

\* Mutant of from_utf8: the body is converted lossily and always accepted.
from_utf8_lossy(bytes) == {Lossy(bytes)}

\* The String extractor of run_script: the body as a String (its bytes are
\* the bytes of the body), or a rejection when the body is not UTF-8. Of
\* UTF-8 the model has the one-byte characters.
from_utf8(bytes) ==
    IF \A i \in 1..Len(bytes) : bytes[i] < 128 THEN {bytes} ELSE {}

\* ScriptInterpreter::as_extension
as_extension(interpreter) ==
    CASE interpreter = "Bash" -> "sh"
      [] interpreter = "Cmd" -> "bat"
      [] interpreter = "Powershell" -> "ps1"

\* Paths, programs and arguments are triples <<class, number, text>>.
working_directory == <<"dir", 0, "rusty-runner">>
Bin(name) == <<"bin", 0, name>>
Arg(text) == <<"arg", 0, text>>
\* Mutant of ScriptPath: the identifier is left out of the file name.
ScriptPath_without_id(id, interpreter) == <<"script", 0, as_extension(interpreter)>>

\* working_directory().push(format!("script_{}.{}", id, interpreter.as_extension()))
ScriptPath(id, interpreter) == <<"script", id, as_extension(interpreter)>>

\* tokio::process::Command as the value it builds.
CommandNew(program) == [program |-> program, args |-> <<>>, current_dir |-> <<"dir", 0, "">>]
WithArg(command, a) == [command EXCEPT !.args = Append(@, a)]
WithArgs(command, as) == [command EXCEPT !.args = @ \o [i \in 1..Len(as) |-> Arg(as[i])]]
WithCurrentDir(command, d) == [command EXCEPT !.current_dir = d]

\* Whether the operating system can start the program of a command.
Launchable(dir, command) ==
    \/ command.program[1] = "bin" /\ command.program[3] \in Installed
    \/ command.program[1] = "script" /\ command.program \in DOMAIN dir

\* std::io::Error::to_string of the launch error.
to_string(e) ==
    CASE e = "NotFound" -> "No such file or directory (os error 2)"
      [] e = "PermissionDenied" -> "Permission denied (os error 13)"

\* The Result of command.output().await.
OutputOk(code, out, err) ==
    [ok |-> TRUE, code |-> code, stdout |-> out, stderr |-> err, error |-> ""]
OutputErr(e) == [ok |-> FALSE, code |-> {}, stdout |-> <<>>, stderr |-> <<>>, error |-> e]

\* Mutant of process_command: a child ended by a signal is reported as a
\* failure to run it.
process_command_signal_fails(cmd_id, result, return_logs) ==
    IF result.ok /\ result.code # {}
    THEN [http |-> 200, id |-> cmd_id, status |-> "Completed",
          exit_code |-> result.code,
          std_out_and_err |-> IF return_logs THEN {<<result.stdout, result.stderr>>} ELSE {},
          reason |-> ""]
    ELSE [http |-> 200, id |-> cmd_id, status |-> "Failure", exit_code |-> {},
          std_out_and_err |-> {}, reason |-> "terminated by a signal"]

\* Mutant of process_command: a failed launch is answered with status 500.
process_command_launch_error_500(cmd_id, result, return_logs) ==
    IF result.ok
    THEN [http |-> 200, id |-> cmd_id, status |-> "Completed",
          exit_code |-> IF result.code = {} THEN {0 - 1001} ELSE result.code,
          std_out_and_err |-> IF return_logs THEN {<<result.stdout, result.stderr>>} ELSE {},
          reason |-> ""]
    ELSE [http |-> 500, id |-> cmd_id, status |-> "Failure", exit_code |-> {},
          std_out_and_err |-> {}, reason |-> to_string(result.error)]

\* process_command: the RunResponse for the result of command.output().
process_command(cmd_id, result, return_logs) ==
    IF result.ok
    THEN [http |-> 200, id |-> cmd_id, status |-> "Completed",
          exit_code |-> IF result.code = {} THEN {0 - 1001} ELSE result.code,
          std_out_and_err |-> IF return_logs THEN {<<result.stdout, result.stderr>>} ELSE {},
          reason |-> ""]
    ELSE [http |-> 200, id |-> cmd_id, status |-> "Failure", exit_code |-> {},
          std_out_and_err |-> {}, reason |-> to_string(result.error)]

\* process: process_command with one capture flag per stream.
process(id, result, return_stdout, return_stderr) ==
    LET r == process_command(id, result, TRUE)
    IN  [http |-> r.http, id |-> r.id, status |-> r.status, exit_code |-> r.exit_code,
         stdout |-> IF return_stdout THEN {p[1] : p \in r.std_out_and_err} ELSE {},
         stderr |-> IF return_stderr THEN {p[2] : p \in r.std_out_and_err} ELSE {},
         reason |-> r.reason]

\* failure_response, with the status code the handler pairs it with.
failure_response(http, id, reason) ==
    [http |-> http, id |-> id, status |-> "Failure", exit_code |-> {},
     stdout |-> {}, stderr |-> {}, reason |-> reason]

\* A connection slot that handles no request. Fields of a handler: the values
\* it passes on (id, interpreter, return_stdout, return_stderr), and as
\* history the body and the capture flags of the request (body, asked), the
\* command and the arguments of a /run request (argv), the
\* paths it wrote, the commands it tried to launch, what its child found
\* when it opened its script (exec), the Result of command.output(), the
\* response.
Idle ==
    [pc |-> "idle", route |-> "", id |-> 0, interpreter |-> "", body |-> <<>>,
     return_stdout |-> FALSE, return_stderr |-> FALSE,
     asked |-> <<>>, argv |-> <<>>, wrote |-> <<>>, launched |-> <<>>, exec |-> <<>>,
     result |-> <<>>, response |-> <<>>]

\* Mutant of Launch: a launch that fails is tried a second time.
Launch_retries(r, h, command) ==
    IF Launchable(ws, command)
    THEN req' = [req EXCEPT ![r] =
                    [h EXCEPT !.pc = "running", !.launched = Append(@, command)]]
    ELSE req' = [req EXCEPT ![r] =
                    [h EXCEPT !.pc = "done", !.launched = Append(Append(@, command), command),
                              !.result = <<OutputErr("NotFound")>>,
                              !.response = <<process(h.id, OutputErr("NotFound"),
                                                     h.return_stdout, h.return_stderr)>>]]

\* process: command.output() is awaited; the launch fails at once or the
\* handler waits for the child to exit.
Launch(r, h, command) ==
    IF Launchable(ws, command)
    THEN req' = [req EXCEPT ![r] =
                    [h EXCEPT !.pc = "running", !.launched = Append(@, command)]]
    ELSE req' = [req EXCEPT ![r] =
                    [h EXCEPT !.pc = "done", !.launched = Append(@, command),
                              !.result = <<OutputErr("NotFound")>>,
                              !.response = <<process(h.id, OutputErr("NotFound"),
                                                     h.return_stdout, h.return_stderr)>>]]

\* Status codes of the rejections of the extractors (Json, Query, String).
Rejections == {400, 422}

\* A malformed request: an extractor of the handler's arguments rejects it,
\* the body of the handler does not run.
reject(r, route) ==
    /\ mpc = "serving"
    /\ req[r].pc = "idle"
    /\ served < MaxRequests
    /\ served' = served + 1
    /\ \E http \in Rejections :
         req' = [req EXCEPT ![r] =
                    [Idle EXCEPT !.pc = "done", !.route = route,
                                 !.response = <<[http |-> http, id |-> 0, status |-> "Rejected",
                                                 exit_code |-> {}, stdout |-> {}, stderr |-> {},
                                                 reason |-> ""]>>]]
    /\ UNCHANGED <<ws, clock, max_age, max_size, sweepVars, config, mainVars, sizeVars>>

\* Mutant of run_command: return_stdout is passed for both capture flags.
run_command_one_flag(r, request) ==
    /\ mpc = "serving"
    /\ req[r].pc = "idle"
    /\ served < MaxRequests
    /\ served' = served + 1
    /\ \E id \in Ids :
         LET h == [Idle EXCEPT !.route = "run", !.id = id,
                               !.argv = <<request.command>> \o request.arguments,
                               !.asked = <<request.return_stdout, request.return_stderr>>,
                               !.return_stdout = request.return_stdout,
                               !.return_stderr = request.return_stdout]
             command == WithArgs(WithCurrentDir(CommandNew(Bin(request.command)),
                                                working_directory),
                                 request.arguments)
         IN  Launch(r, h, command)
    /\ UNCHANGED <<ws, clock, max_age, max_size, sweepVars, config, mainVars, sizeVars>>

\* Mutant of run_command: the command line is handed to a shell.
run_command_shell(r, request) ==
    /\ mpc = "serving"
    /\ req[r].pc = "idle"
    /\ served < MaxRequests
    /\ served' = served + 1
    /\ \E id \in Ids :
         LET h == [Idle EXCEPT !.route = "run", !.id = id,
                               !.argv = <<request.command>> \o request.arguments,
                               !.asked = <<request.return_stdout, request.return_stderr>>,
                               !.return_stdout = request.return_stdout,
                               !.return_stderr = request.return_stderr]
             command == WithArgs(WithArgs(WithCurrentDir(CommandNew(Bin("sh")),
                                                         working_directory),
                                          <<"-c", request.command>>),
                                 request.arguments)
         IN  Launch(r, h, command)
    /\ UNCHANGED <<ws, clock, max_age, max_size, sweepVars, config, mainVars, sizeVars>>

\* POST /api/run
run_command(r, request) ==
    /\ mpc = "serving"
    /\ req[r].pc = "idle"
    /\ served < MaxRequests
    /\ served' = served + 1
    /\ \E id \in Ids :
         LET h == [Idle EXCEPT !.route = "run", !.id = id,
                               !.argv = <<request.command>> \o request.arguments,
                               !.asked = <<request.return_stdout, request.return_stderr>>,
                               !.return_stdout = request.return_stdout,
                               !.return_stderr = request.return_stderr]
             command == WithArgs(WithCurrentDir(CommandNew(Bin(request.command)),
                                                working_directory),
                                 request.arguments)
         IN  Launch(r, h, command)
    /\ UNCHANGED <<ws, clock, max_age, max_size, sweepVars, config, mainVars, sizeVars>>

\* Mutant of write_failed: the error of the write is dropped and the handler
\* goes on to the interpreter.
write_failed_ignored(h) == [h EXCEPT !.pc = "dispatch"]

\* if let Err(e) = tokio::fs::write(..): the handler returns status 500 with
\* failure_response(id, "Failed to write script data").
write_failed(h) ==
    [h EXCEPT !.pc = "done",
              !.response = <<failure_response(500, h.id, "Failed to write script data")>>]

\* POST /api/runscript, up to the end of tokio::fs::write
run_script(r, query, body) ==
    /\ mpc = "serving"
    /\ req[r].pc = "idle"
    /\ served < MaxRequests
    /\ served' = served + 1
    /\ \E id \in Ids, written \in BOOLEAN, script \in from_utf8(body) :
         LET script_path == ScriptPath(id, query.interpreter)
             h == [Idle EXCEPT !.route = "runscript", !.id = id,
                               !.interpreter = query.interpreter, !.body = body,
                               !.asked = <<query.return_stdout, query.return_stderr>>,
                               !.return_stdout = query.return_stdout,
                               !.return_stderr = query.return_stderr]
         IN  IF written
             THEN /\ ws' = [nm \in DOMAIN ws \cup {script_path} |->
                              IF nm = script_path
                              THEN [kind |-> "file", modified |-> clock, size |-> Len(script),
                                    fault |-> "none", data |-> script]
                              ELSE ws[nm]]
                  /\ quiet' = FALSE
                  /\ req' = [req EXCEPT ![r] =
                                [h EXCEPT !.pc = "dispatch", !.wrote = <<script_path>>]]
             ELSE /\ req' = [req EXCEPT ![r] = write_failed(h)]
                  /\ UNCHANGED <<ws, quiet>>
    /\ UNCHANGED <<clock, max_age, max_size, config, mainVars, sizeVars, spc, now, rd, entries, idx,
                   total_size_seen, last, failed, ws0, listed, sized, deletedA, deletedB,
                   failedDel, tickAt, repeat>>

\* The match on the interpreter in run_script: the command to run, or the
\* reason the interpreter is not supported.
Supported(command) == [supported |-> TRUE, reason |-> "", command |-> command]
Unsupported(reason) ==
    [supported |-> FALSE, reason |-> reason, command |-> CommandNew(Bin(""))]

\* Mutant of bash_command: the script path follows the binary directly.
bash_command_no_separator(bash, script_path) == WithArg(CommandNew(bash), script_path)

\* `bash -- {file}`
bash_command(bash, script_path) ==
    WithArg(WithArg(CommandNew(bash), Arg("--")), script_path)

\* `powershell -File {file}`
powershell_command(powershell, script_path) ==
    WithArg(WithArg(CommandNew(powershell), Arg("-File")), script_path)

\* Mutant of cmd_rejected: a Cmd script is run on every platform.
cmd_rejected_never == FALSE

\* if !cfg!(windows): a Cmd script is rejected
cmd_rejected == ~windows

\* Mutant of resolve: without a configured path, bash and pwsh of the
\* execution path are used.
resolve_default_path(interpreter, script_path) ==
    CASE interpreter = "Bash" ->
           LET bash == IF bash_path = {} THEN Bin("bash") ELSE CHOOSE b \in bash_path : TRUE
           IN  Supported(WithArg(WithArg(CommandNew(bash), Arg("--")), script_path))
      [] interpreter = "Powershell" ->
           LET powershell == IF powershell_path = {} THEN Bin("pwsh")
                             ELSE CHOOSE b \in powershell_path : TRUE
           IN  Supported(WithArg(WithArg(CommandNew(powershell), Arg("-File")), script_path))
      [] interpreter = "Cmd" ->
           IF ~windows
           THEN Unsupported("Cmd not supported on unix")
           ELSE Supported(CommandNew(script_path))

resolve(interpreter, script_path) ==
    CASE interpreter = "Bash" ->
           IF bash_path = {}
           THEN Unsupported("Bash not supported")
           ELSE LET bash == CHOOSE b \in bash_path : TRUE
                IN  Supported(bash_command(bash, script_path))
      [] interpreter = "Powershell" ->
           IF powershell_path = {}
           THEN Unsupported("Powershell not supported")
           ELSE LET powershell == CHOOSE b \in powershell_path : TRUE
                IN  Supported(powershell_command(powershell, script_path))
      [] interpreter = "Cmd" ->
           IF cmd_rejected
           THEN Unsupported("Cmd not supported on unix")
           ELSE Supported(CommandNew(script_path))

\* run_script after the write: the match on the interpreter, then process.
run_script_dispatch(r) ==
    /\ req[r].pc = "dispatch"
    /\ LET h == req[r]
           resolved == resolve(h.interpreter, ScriptPath(h.id, h.interpreter))
       IN  IF resolved.supported
           THEN Launch(r, h, WithCurrentDir(resolved.command, working_directory))
           ELSE req' = [req EXCEPT ![r] =
                           [h EXCEPT !.pc = "done",
                                     !.response = <<failure_response(400, h.id,
                                                                     resolved.reason)>>]]
    /\ UNCHANGED <<ws, clock, max_age, max_size, sweepVars, config, mainVars, sizeVars, served>>

\* The script a command runs: the program itself, or an argument.
ScriptOf(command) ==
    IF command.program[1] = "script" THEN {command.program}
    ELSE { command.args[i] : i \in { j \in 1..Len(command.args) :
                                        command.args[j][1] = "script" } }

\* The line ending of the echo of an interpreter.
LineEnding(interpreter) == IF interpreter = "Bash" THEN <<10>> ELSE <<13, 10>>

\* How a child ends that found (or did not find) the bytes data as its
\* script: echo of a literal writes the literal and a line ending and exits
\* with 0; an interpreter whose script is gone fails; anything else ends in
\* any way.
Executes(interpreter, found, data) ==
    IF ~found
    THEN { OutputOk({3}, <<>>, err) : err \in Outputs \ {<<>>} }
    ELSE IF Len(data) > Len(Echo) /\ SubSeq(data, 1, Len(Echo)) = Echo
    THEN { OutputOk({0}, SubSeq(data, Len(Echo) + 1, Len(data)) \o LineEnding(interpreter),
                    <<>>) }
    ELSE { OutputOk(code, out, err) : code \in ExitCodes, out \in Outputs, err \in Outputs }

\* The child of a handler starts to run: an interpreter opens its script
\* file. The child may be one that never exits.
child_start(r, hangs) ==
    /\ req[r].pc = "running"
    /\ LET h == req[r]
           paths == ScriptOf(h.launched[Len(h.launched)])
           found == paths \subseteq DOMAIN ws
           data == IF found /\ paths # {} THEN ws[CHOOSE q \in paths : TRUE].data ELSE <<>>
       IN  req' = [req EXCEPT ![r] =
                      [h EXCEPT !.pc = IF hangs THEN "hung" ELSE "executing",
                                !.exec = <<[found |-> found, data |-> data]>>]]
    /\ UNCHANGED <<ws, clock, max_age, max_size, sweepVars, config, mainVars, sizeVars, served>>

\* Mutant of child_exit: the wait for a child that does not exit is given
\* up (a timeout), and the handler answers.
child_exit_timeout(r, output) ==
    /\ req[r].pc \in {"executing", "hung"}
    /\ LET h == req[r]
       IN  /\ \/ h.pc = "hung"
               \/ output \in Executes(h.interpreter, h.exec[1].found, h.exec[1].data)
           /\ req' = [req EXCEPT ![r] =
                          [h EXCEPT !.pc = "done",
                                    !.result = <<output>>,
                                    !.response = <<process(h.id, output,
                                                           h.return_stdout, h.return_stderr)>>]]
    /\ UNCHANGED <<ws, clock, max_age, max_size, sweepVars, config, mainVars, sizeVars, served>>

\* The child of a handler exits and process builds the response.
child_exit(r, output) ==
    /\ req[r].pc = "executing"
    /\ LET h == req[r]
       IN  /\ output \in Executes(h.interpreter, h.exec[1].found, h.exec[1].data)
           /\ req' = [req EXCEPT ![r] =
                          [h EXCEPT !.pc = "done",
                                    !.result = <<output>>,
                                    !.response = <<process(h.id, output,
                                                           h.return_stdout, h.return_stderr)>>]]
    /\ UNCHANGED <<ws, clock, max_age, max_size, sweepVars, config, mainVars, sizeVars, served>>

\* Mutant of respond: the handler removes the script file it wrote before it
\* returns.
respond_removes_script(r) ==
    /\ req[r].pc = "done"
    /\ req' = [req EXCEPT ![r] = Idle]
    /\ ws' = [nm \in (DOMAIN ws) \ {req[r].wrote[i] : i \in 1..Len(req[r].wrote)} |-> ws[nm]]
    /\ UNCHANGED <<clock, max_age, max_size, sweepVars, config, mainVars, sizeVars, served>>

\* The response is sent and the handler's task ends.
respond(r) ==
    /\ req[r].pc = "done"
    /\ req' = [req EXCEPT ![r] = Idle]
    /\ UNCHANGED <<ws, clock, max_age, max_size, sweepVars, config, mainVars, sizeVars, served>>

(* ------------------------- starting states ---------------------------- *)
NonDecreasing(n) ==
    { mt \in [1..n -> Times] : \A i \in 1..n : i < n => mt[i] <= mt[i + 1] }

\* Workspaces of n entries, numbered oldest first; at most one of them (the
\* entry numbered at) is something other than a plain file whose I/O succeeds.
Workspaces(n) ==
    { [nm \in {Artifact(i) : i \in 1..n} |->
          LET i == nm[2]
              k == IF i = at THEN sk ELSE Plain
          IN  [kind |-> k.kind, modified |-> mt[i], size |-> sz[i], fault |-> k.fault,
               data |-> <<>>]] :
      mt \in NonDecreasing(n), sz \in [1..n -> Sizes], at \in 0..n, sk \in Specials }

InitSweeper ==
    /\ spc = "tick"
    /\ now = 0
    /\ rd = {}
    /\ entries = <<>>
    /\ idx = 0
    /\ total_size_seen = 0
    /\ last = "none"
    /\ failed = 0
    /\ ws0 = ws
    /\ listed = FALSE
    /\ sized = {}
    /\ deletedA = {}
    /\ deletedB = {}
    /\ failedDel = {}
    /\ quiet = FALSE
    /\ tickAt = clock
    /\ repeat = "no"

InitRequests ==
    /\ req = [r \in Slots |-> Idle]
    /\ served = 0

\* main has come to axum::serve: the working directory exists, the cleanup
\* task is spawned, requests are accepted.
InitServing ==
    /\ root = TRUE
    /\ mpc = "serving"

\* No call of dir_size is looked at on its own.
NoTree == [kind |-> "none"]
InitWalkIdle ==
    /\ fs = <<>>
    /\ stack = <<>>
    /\ visits = <<>>
InitSizeIdle ==
    /\ tree = NoTree
    /\ measured = {}
    /\ InitWalkIdle

\* The sweeper alone, over every workspace of up to n entries and every
\* retention policy.
InitSweepUpTo(n) ==
    /\ \E k \in 0..n : ws \in Workspaces(k)
    /\ clock = MaxTime - 1
    /\ max_age \in MaxAges
    /\ max_size \in MaxSizes
    /\ InitSweeper
    /\ bash_path = {}
    /\ powershell_path = {}
    /\ windows = FALSE
    /\ InitRequests
    /\ InitServing
    /\ InitSizeIdle

InitSweep == InitSweepUpTo(MaxEntries)

NextSweep == Tick \/ AgeNext \/ SizeOpen \/ SizeNext \/ TimePasses

SpecSweep == InitSweep /\ [][NextSweep]_vars

\* The same over workspaces of one entry less; the runtime polls the cleanup
\* task whenever it can proceed: its timer fires and each await of a sweep
\* completes.
InitFair == InitSweepUpTo(MaxEntries - 1)

FairSweep ==
    /\ InitFair /\ [][NextSweep]_vars
    /\ WF_vars(Tick) /\ WF_vars(AgeNext) /\ WF_vars(SizeOpen) /\ WF_vars(SizeNext)

\* Values of --cleanup-max-age for the age pass on its own, zero included.
AgeLimits == {{0}, {1}, {2}}

\* The age pass alone over workspaces of one entry less, the clock behind
\* the modification times of some entries: max_size is unset, the clock
\* starts at zero.
InitAge ==
    /\ \E k \in 0..(MaxEntries - 1) : ws \in Workspaces(k)
    /\ clock = 0
    /\ max_age \in AgeLimits
    /\ max_size = {}
    /\ InitSweeper
    /\ bash_path = {}
    /\ powershell_path = {}
    /\ windows = FALSE
    /\ InitRequests
    /\ InitServing
    /\ InitSizeIdle

NextAge == Tick \/ AgeNext \/ SizeOpen \/ TimePasses

SpecAge == InitAge /\ [][NextAge]_vars

\* The request handlers alone, over every configuration of the interpreters,
\* in a working directory that main has just created.
InitRun ==
    /\ ws = <<>>
    /\ clock = MaxTime - 1
    /\ max_age = {}
    /\ max_size = {}
    /\ InitSweeper
    /\ bash_path \in {{}, {Bin("bash")}, {Bin("missing")}}
    /\ powershell_path \in {{}, {Bin("pwsh")}}
    /\ windows \in BOOLEAN
    /\ InitRequests
    /\ InitServing
    /\ InitSizeIdle

NextRun ==
    \/ \E r \in {1}, route \in {"run", "runscript"} : reject(r, route)
    \/ \E r \in {1}, request \in RunRequests : run_command(r, request)
    \/ \E r \in {1}, query \in RunScriptQueries, body \in Bodies :
          run_script(r, query, body)
    \/ \E r \in {1} : run_script_dispatch(r)
    \/ \E r \in {1}, hangs \in BOOLEAN : child_start(r, hangs)
    \/ \E r \in {1}, output \in Outcomes : child_exit(r, output)
    \/ \E r \in {1} : respond(r)

SpecRun == InitRun /\ [][NextRun]_vars

\* The server as main starts it: the cleanup task and the request handlers
\* over one working directory, which main has just created, with both
\* retention rules set. bash is installed where --bash-path says, the path
\* for powershell names no program, the build is not for Windows. The
\* requests are scripts for each interpreter and one command; the children
\* end with stderr iff they fail.
SomeRequests == { q \in RunRequests : /\ q.command = "echo" /\ q.arguments = <<>>
                                      /\ q.return_stdout /\ ~q.return_stderr }
SomeQueries == { q \in RunScriptQueries : q.return_stdout /\ ~q.return_stderr }
SomeOutcomes == { o \in Outcomes : /\ o.code # {}
                                   /\ (o.stderr = <<>>) <=> (o.code = {0})
                                   /\ o.code # {0} => o.stdout = <<>> }

Init ==
    /\ ws = <<>>
    /\ clock = MaxTime - 2
    /\ max_age = {1}
    /\ max_size = {6}
    /\ InitSweeper
    /\ bash_path = {Bin("bash")}
    /\ powershell_path = {Bin("missing")}
    /\ windows = FALSE
    /\ InitRequests
    /\ InitServing
    /\ InitSizeIdle

Next ==
    \/ Tick \/ AgeNext \/ SizeOpen \/ SizeNext \/ TimePasses
    \/ \E r \in Slots, route \in {"runscript"} : reject(r, route)
    \/ \E r \in Slots, request \in SomeRequests : run_command(r, request)
    \/ \E r \in Slots, query \in SomeQueries, body \in Bodies : run_script(r, query, body)
    \/ \E r \in Slots : run_script_dispatch(r)
    \/ \E r \in Slots, hangs \in BOOLEAN : child_start(r, hangs)
    \/ \E r \in Slots, output \in SomeOutcomes : child_exit(r, output)
    \/ \E r \in Slots : respond(r)

Spec == Init /\ [][Next]_vars

\* The same server with the clock standing still, asked for bash scripts
\* that echo. The runtime polls every task that can proceed: the cleanup task
\* as in FairSweep, and each handler at each of its awaits; a child process
\* that is one to exit does exit.
EchoQueries == { q \in SomeQueries : q.interpreter = "Bash" }
EchoBodies == { b \in Bodies : Len(b) > Len(Echo) /\ SubSeq(b, 1, Len(Echo)) = Echo }

NextLive ==
    \/ Tick \/ AgeNext \/ SizeOpen \/ SizeNext
    \/ \E r \in Slots, query \in EchoQueries, body \in EchoBodies : run_script(r, query, body)
    \/ \E r \in Slots : run_script_dispatch(r)
    \/ \E r \in Slots, hangs \in BOOLEAN : child_start(r, hangs)
    \/ \E r \in Slots, output \in SomeOutcomes : child_exit(r, output)
    \/ \E r \in Slots : respond(r)

FairSpec ==
    /\ Init /\ [][NextLive]_vars
    /\ WF_vars(Tick) /\ WF_vars(AgeNext) /\ WF_vars(SizeOpen) /\ WF_vars(SizeNext)
    /\ \A r \in Slots :
         /\ WF_vars(run_script_dispatch(r))
         /\ WF_vars(\E hangs \in BOOLEAN : child_start(r, hangs))
         /\ WF_vars(\E output \in SomeOutcomes : child_exit(r, output))
         /\ WF_vars(respond(r))

(* ------------------------------ dir_size ------------------------------ *)
\* Lengths in bytes of the regular files of a tree.
FileLens == {3, 10}

\* What is found at a path. kind is what the path itself is: a regular file,
\* a directory, a symbolic link, or something else (a fifo, a socket); len
\* the length of a file; kids the entries of a directory in the order its
\* ReadDir returns them, or the target of a link (none when it is broken);
\* meta whether the metadata at the path can be read; read how many entries
\* the ReadDir of a directory returns before it ends or fails, -1 when the
\* directory cannot be opened.
Node(kind, len, kids, meta, read) ==
    [kind |-> kind, len |-> len, kids |-> kids, meta |-> meta, read |-> read]
File(len, meta) == Node("file", len, <<>>, meta, 0)
Special == Node("special", 0, <<>>, TRUE, 0)
Link(target) == Node("link", 0, target, TRUE, 0)

\* Paths that are no directory: regular files, one of them with unreadable
\* metadata, a fifo, a broken link and a link to a regular file.
Leaves ==
    { File(len, TRUE) : len \in FileLens }
    \cup {File(3, FALSE), Special, Link(<<>>), Link(<<File(10, TRUE)>>)}


SeqsUpTo(S, n) == UNION { [1..k -> S] : k \in 0..n }

\* The directories with entries kids: one for each number of entries its
\* ReadDir returns before it ends or fails, one that cannot be opened.
DirsOf(kids) == { Node("dir", 0, kids, TRUE, read) : read \in {0 - 1} \cup 0..Len(kids) }

\* Directories without entries; one of them has unreadable metadata.
EmptyDirs == DirsOf(<<>>) \cup {Node("dir", 0, <<>>, FALSE, 0)}

\* Trees with up to d levels of entries, MaxKids entries per directory.
RECURSIVE Trees(_)
Trees(d) ==
    IF d = 0 THEN Leaves \cup EmptyDirs
    ELSE Leaves \cup EmptyDirs
         \cup UNION { DirsOf(kids) : kids \in SeqsUpTo(Trees(d - 1), MaxKids) \ {<<>>} }

\* Levels of entries in a tree.
RECURSIVE Depth(_)
Depth(n) ==
    IF n.kind # "dir" \/ n.kids = <<>> THEN 0
    ELSE LET ds == { Depth(n.kids[i]) : i \in 1..Len(n.kids) }
         IN  1 + CHOOSE d \in ds : \A e \in ds : e <= d

\* What can lie next to a tree in a directory of the deepest trees.
Siblings == Trees(MaxDepth - 1)

\* tokio::fs::metadata(&path): follows symbolic links; {} when it fails.
RECURSIVE metadata(_)
metadata(n) ==
    IF ~n.meta THEN {}
    ELSE IF n.kind = "link"
         THEN IF n.kids = <<>> THEN {} ELSE metadata(n.kids[1])
         ELSE {n}

\* Sum of f over the first k elements of a sequence of numbers.
RECURSIVE SumSeq(_, _)
SumSeq(s, k) == IF k = 0 THEN 0 ELSE SumSeq(s, k - 1) + s[k]

\* dir_size(path), on the tree found at the path.
RECURSIVE dir_size_tree(_)
dir_size_tree(n) ==
    IF metadata(n) = {} THEN 0
    ELSE LET meta == CHOOSE m \in metadata(n) : TRUE
         IN  IF meta.kind = "file" THEN meta.len
             ELSE IF meta.kind = "dir"
             THEN IF meta.read < 0 THEN 0
                  ELSE SumSeq([i \in 1..Len(meta.kids) |-> dir_size_tree(meta.kids[i])],
                              meta.read)
             ELSE 0

\* The tree is put into a new directory, alone or next to another tree.
Enclose ==
    /\ measured = {}
    /\ Depth(tree) < MaxDepth
    /\ \E kids \in {<<tree>>} \cup UNION { {<<tree, sib>>, <<sib, tree>>} : sib \in Siblings } :
          /\ Len(kids) <= MaxKids
          /\ tree' \in DirsOf(kids)
    /\ UNCHANGED <<measured, walkVars, ws, clock, max_age, max_size, sweepVars, config, reqVars,
                   mainVars>>

\* dir_size is called on the path of the tree and returns.
Measure ==
    /\ tree # NoTree
    /\ measured = {}
    /\ measured' = {dir_size_tree(tree)}
    /\ UNCHANGED <<tree, walkVars, ws, clock, max_age, max_size, sweepVars, config, reqVars,
                   mainVars>>

\* dir_size on its own, over every tree of the bounds.
InitSize ==
    /\ ws = <<>>
    /\ clock = 0
    /\ max_age = {}
    /\ max_size = {}
    /\ InitSweeper
    /\ bash_path = {}
    /\ powershell_path = {}
    /\ windows = FALSE
    /\ InitRequests
    /\ InitServing
    /\ tree \in Trees(0)
    /\ measured = {}
    /\ InitWalkIdle

NextSize == Enclose \/ Measure

SpecSize == InitSize /\ [][NextSize]_vars

(* ----------------------- dir_size, step by step ----------------------- *)
\* A node under the path dir_size is called with: a regular file of len
\* bytes, a directory, or a symbolic link to node target (0: to nothing).
\* parent is the directory the node is an entry of (0 for node 1, the path
\* itself).
WalkNode(kind, parent, target, len) ==
    [kind |-> kind, parent |-> parent, target |-> target, len |-> len]

\* The entries of directory d, in the order its ReadDir returns them.
Kids(d) == SelectSeq([i \in 1..Len(fs) |-> i], LAMBDA i : fs[i].parent = d)

\* tokio::fs::metadata(&path) for the path of node n, links symbolic links
\* having been followed to get to its directory: the node found and the
\* links followed, node 0 when it fails (a link to nothing, or more links
\* in the path than the system follows).
RECURSIVE Resolve(_, _)
Resolve(n, links) ==
    IF fs[n].kind # "link" THEN [node |-> n, links |-> links]
    ELSE IF fs[n].target = 0 \/ links + 1 > MaxSymlinks THEN [node |-> 0, links |-> links]
    ELSE Resolve(fs[n].target, links + 1)

\* A call of dir_size that is reading directory dir: i the entry its ReadDir
\* returns next, size its local sum.
Frame(dir, links) == [dir |-> dir, i |-> 1, links |-> links, size |-> 0]

\* Before dir_size is called a file, a directory or a link is put into one
\* of the directories.
Create ==
    /\ fs # <<>> /\ stack = <<>> /\ measured = {}
    /\ \A n \in DOMAIN visits : visits[n] = 0
    /\ Len(fs) < MaxNodes
    /\ \E parent \in { d \in DOMAIN fs : fs[d].kind = "dir" } :
       \E node \in {WalkNode("file", parent, 0, 3), WalkNode("dir", parent, 0, 0)}
                   \cup { WalkNode("link", parent, t, 0) : t \in 0..(Len(fs) + 1) } :
          /\ fs' = Append(fs, node)
          /\ visits' = Append(visits, 0)
    /\ UNCHANGED <<stack, tree, measured, ws, clock, max_age, max_size, sweepVars, config,
                   reqVars, mainVars>>

\* dir_size(path) is called on the directory: its metadata is read and its
\* ReadDir opened.
dir_size_call ==
    /\ fs # <<>> /\ stack = <<>> /\ measured = {}
    /\ \A n \in DOMAIN visits : visits[n] = 0
    /\ visits' = [visits EXCEPT ![1] = 1]
    /\ stack' = <<Frame(1, 0)>>
    /\ UNCHANGED <<fs, tree, measured, ws, clock, max_age, max_size, sweepVars, config,
                   reqVars, mainVars>>

\* One iteration of the while loop of the innermost call: dir_size is called
\* on the path of the next entry, which returns at once unless a directory
\* is found there; or the ReadDir has ended and the call returns its sum.
dir_size_next ==
    /\ stack # <<>>
    /\ LET d == Len(stack)
           top == stack[d]
           kids == Kids(top.dir)
       IN  IF top.i > Len(kids)
           THEN /\ IF d = 1
                   THEN /\ measured' = {top.size}
                        /\ stack' = <<>>
                   ELSE /\ stack' = [SubSeq(stack, 1, d - 1) EXCEPT ![d - 1].size = @ + top.size]
                        /\ UNCHANGED measured
                /\ UNCHANGED visits
           ELSE LET found == Resolve(kids[top.i], top.links)
                    n == found.node
                    here == [stack EXCEPT ![d].i = @ + 1]
                IN  /\ UNCHANGED measured
                    /\ IF n = 0
                       THEN /\ stack' = here
                            /\ UNCHANGED visits
                       ELSE /\ visits' = [visits EXCEPT ![n] = Min(@ + 1, 2)]
                            /\ IF fs[n].kind = "file"
                               THEN stack' = [here EXCEPT ![d].size = @ + fs[n].len]
                               ELSE stack' = Append(here, Frame(n, found.links))
    /\ UNCHANGED <<fs, tree, ws, clock, max_age, max_size, sweepVars, config, reqVars, mainVars>>

\* dir_size on a directory, over every content of up to MaxNodes nodes.
InitWalk ==
    /\ ws = <<>>
    /\ clock = 0
    /\ max_age = {}
    /\ max_size = {}
    /\ InitSweeper
    /\ bash_path = {}
    /\ powershell_path = {}
    /\ windows = FALSE
    /\ InitRequests
    /\ InitServing
    /\ tree = NoTree
    /\ measured = {}
    /\ fs = <<WalkNode("dir", 0, 0, 0)>>
    /\ stack = <<>>
    /\ visits = <<0>>

NextWalk == Create \/ dir_size_call \/ dir_size_next

SpecWalk == InitWalk /\ [][NextWalk]_vars

(* ------------------------------ startup ------------------------------- *)
\* Mutant of create_dir: main goes on without creating the directory.
create_dir_skipped(ok) ==
    /\ mpc = "create_dir"
    /\ mpc' = "start_cleanup"
    /\ UNCHANGED <<root, ws, clock, max_age, max_size, sweepVars, config, reqVars, sizeVars>>

\* main: if !working_directory().exists() { create_dir(..).await.expect(..) }
create_dir(ok) ==
    /\ mpc = "create_dir"
    /\ IF root
       THEN mpc' = "start_cleanup" /\ UNCHANGED root
       ELSE IF ok
            THEN mpc' = "start_cleanup" /\ root' = TRUE
            ELSE mpc' = "panicked" /\ UNCHANGED root
    /\ UNCHANGED <<ws, clock, max_age, max_size, sweepVars, config, reqVars, sizeVars>>

\* main: cleanup::start_cleanup_task(args.cleanup_max_age, args.cleanup_max_size)
start_cleanup_task ==
    /\ mpc = "start_cleanup"
    /\ mpc' = "serve"
    /\ UNCHANGED <<root, ws, clock, max_age, max_size, sweepVars, config, reqVars, sizeVars>>

\* main: the router is built, the listener bound (or main returns the error
\* of bind and the process ends), axum::serve accepts requests.
serve(bound) ==
    /\ mpc = "serve"
    /\ mpc' = IF bound THEN "serving" ELSE "exited"
    /\ UNCHANGED <<root, ws, clock, max_age, max_size, sweepVars, config, reqVars, sizeVars>>

\* The server from the start of main, with one connection at a time and both
\* retention rules set. The working directory is absent, or is there from an
\* earlier run, empty or with one old entry that exceeds max_size. The
\* requests are commands, one of a program that does not exist, and bash
\* scripts; the children exit.
MainRequests ==
    { q \in RunRequests : q.arguments = <<>> /\ q.return_stdout /\ ~q.return_stderr }

LeftBehind ==
    { w \in Workspaces(1) : \A nm \in DOMAIN w : w[nm].modified = 0 /\ w[nm].size = 10 }

InitMain ==
    /\ root \in BOOLEAN
    /\ ws \in IF root THEN Workspaces(0) \cup LeftBehind ELSE {<<>>}
    /\ clock = MaxTime - 1
    /\ max_age = {1}
    /\ max_size = {6}
    /\ InitSweeper
    /\ bash_path = {Bin("bash")}
    /\ powershell_path = {Bin("missing")}
    /\ windows = FALSE
    /\ InitRequests
    /\ mpc = "create_dir"
    /\ InitSizeIdle

NextMain ==
    \/ \E ok \in BOOLEAN : create_dir(ok)
    \/ start_cleanup_task
    \/ \E bound \in BOOLEAN : serve(bound)
    \/ Tick \/ AgeNext \/ SizeOpen \/ SizeNext \/ TimePasses
    \/ \E r \in {1}, route \in {"run"} : reject(r, route)
    \/ \E r \in {1}, request \in MainRequests : run_command(r, request)
    \/ \E r \in {1}, query \in EchoQueries, body \in EchoBodies : run_script(r, query, body)
    \/ \E r \in {1} : run_script_dispatch(r)
    \/ \E r \in {1}, hangs \in {FALSE} : child_start(r, hangs)
    \/ \E r \in {1}, output \in SomeOutcomes : child_exit(r, output)
    \/ \E r \in {1} : respond(r)

SpecMain == InitMain /\ [][NextMain]_vars

(* ============================== claims ================================ *)
\* The workspace had no entry whose metadata or deletion fails, and only
\* regular files and directories.
Sound(dir) ==
    \A nm \in DOMAIN dir : dir[nm].fault = "none" /\ dir[nm].kind \in {"file", "dir"}

\* Bytes of the first i entries of a listing, sizes as in directory dir.
RECURSIVE PrefixSize(_, _, _)
PrefixSize(dir, s, i) ==
    IF i = 0 THEN 0 ELSE PrefixSize(dir, s, i - 1) + dir[s[i]].size

\* The listing s holds each name of S once, no entry before a newer one.
NewestFirst(dir, s, S) ==
    /\ {s[i] : i \in 1..Len(s)} = S
    /\ Len(s) = Cardinality(S)
    /\ \A i, j \in 1..Len(s) : i < j => dir[s[i]].modified >= dir[s[j]].modified

\* A (oldest, 10 bytes), B (5 bytes), C (newest, 3 bytes).
ExampleABC(dir) ==
    /\ DOMAIN dir = {Artifact(1), Artifact(2), Artifact(3)}
    /\ dir[Artifact(1)].size = 10 /\ dir[Artifact(2)].size = 5 /\ dir[Artifact(3)].size = 3
    /\ dir[Artifact(1)].modified < dir[Artifact(2)].modified
    /\ dir[Artifact(2)].modified < dir[Artifact(3)].modified

\* The last call of cleanup_endpoint has returned Ok.
SweepOk == spc = "tick" /\ last = "Ok"

\* C1: in a sweep with max_size = M over a workspace without I/O faults whose
\* entries are files and directories, the size pass walks what the age pass
\* left, newest first; each entry it has passed is still there iff the bytes
\* of the entries up to and including it are at most M. For A (oldest, 10),
\* B (5), C (newest, 3) and M = 6 a finished sweep leaves exactly C (when
\* the age pass did not already remove C).
C1_SizeEviction ==
    (listed /\ Sound(ws0)) =>
        /\ NewestFirst(ws0, entries, (DOMAIN ws0) \ deletedA)
        /\ \A m \in max_size : \A i \in 1..(idx - 1) :
              (entries[i] \in DOMAIN ws) <=> (PrefixSize(ws0, entries, i) <= m)
        /\ (SweepOk /\ ExampleABC(ws0) /\ max_size = {6} /\ Artifact(3) \notin deletedA)
              => DOMAIN ws = {Artifact(3)}

C1_Witness ==
    /\ SweepOk /\ listed /\ Sound(ws0) /\ ExampleABC(ws0)
    /\ max_size = {6} /\ max_age = {}
    /\ entries = <<Artifact(3), Artifact(2), Artifact(1)>>
    /\ deletedB = {Artifact(1), Artifact(2)}
    /\ DOMAIN ws = {Artifact(3)}

\* A call of cleanup_endpoint has returned (Ok or Err) and none is running.
SweepReturned == spc = "tick" /\ last # "none"

\* Regular files and directories of dir, readable and removable, that the
\* age rule of this sweep covers.
AgeDue(dir) ==
    { nm \in DOMAIN dir : /\ dir[nm].kind \in {"file", "dir"}
                          /\ dir[nm].fault = "none"
                          /\ \E a \in max_age : Age(now, dir[nm].modified) > a }

\* C2 (as claimed): after a sweep with max_age set, every file or directory
\* (without a fault of its own) that was older than max_age when the sweep
\* read the time is gone, and the age pass removed no entry that was not
\* older than max_age.
C2_AgeEviction ==
    (SweepReturned /\ max_age # {}) =>
        /\ \A nm \in AgeDue(ws0) : nm \notin DOMAIN ws
        /\ deletedA \subseteq AgeDue(ws0)

\* C3 (as claimed): when the removal of an entry has failed in a sweep, the
\* sweep still removes every other file or directory that is due: the ones
\* older than max_age, and in the size pass the ones at which the bytes
\* listed so far exceed max_size.
C3_DeletionFailureDoesNotAbort ==
    (SweepReturned /\ failedDel # {}) =>
        /\ \A nm \in AgeDue(ws0) \ failedDel : nm \notin DOMAIN ws
        /\ listed =>
                 \A m \in max_size : \A i \in 1..Len(entries) :
                    ( /\ PrefixSize(ws0, entries, i) > m
                      /\ ws0[entries[i]].kind \in {"file", "dir"}
                      /\ entries[i] \notin failedDel )
                    => entries[i] \notin DOMAIN ws

\* The entries of dir newer than entry nm hold more than m bytes.
NewerExceed(dir, nm, m) ==
    LET newer == { x \in DOMAIN dir : dir[x].modified > dir[nm].modified }
        RECURSIVE Sum(_)
        Sum(S) == IF S = {} THEN 0
                  ELSE LET x == CHOOSE y \in S : TRUE IN dir[x].size + Sum(S \ {x})
    IN  Sum(newer) > m

\* C4 (as claimed): in a sweep of the size pass alone, an entry whose
\* metadata cannot be read and that lies behind newer entries which already
\* exceed max_size does not abort the sweep: the sweep returns Ok, that
\* entry is removed without its size having been computed, and every
\* regular file older than it is removed as well.
C4_ShortCircuitSurvivesUnreadable ==
    (SweepReturned /\ max_age = {}) =>
        \A m \in max_size : \A u \in DOMAIN ws0 :
            (ws0[u].fault = "meta" /\ NewerExceed(ws0, u, m)) =>
                /\ last = "Ok"
                /\ u \notin DOMAIN ws
                /\ u \notin sized
                /\ \A nm \in DOMAIN ws0 :
                      (ws0[nm].modified < ws0[u].modified /\ ws0[nm].kind = "file")
                      => nm \notin DOMAIN ws

\* C5: the size pass computes the size of an entry iff the bytes of the
\* entries listed before it are at most max_size, so it computes no size
\* behind the entry at which the budget is first exceeded, and at most one
\* entry it removed had its size computed.
C5_SizeComputedOnlyWithinBudget ==
    listed =>
        /\ \A m \in max_size : \A i \in 1..(idx - 1) :
              (entries[i] \in sized) <=> (PrefixSize(ws0, entries, i - 1) <= m)
        /\ sized \subseteq {entries[i] : i \in 1..(idx - 1)}
        /\ Cardinality(sized \cap deletedB) <= 1

C5_Witness ==
    /\ SweepOk /\ listed
    /\ Len(entries) = 3
    /\ Cardinality(deletedB) = 2
    /\ Cardinality(sized \cap deletedB) = 1
    /\ Cardinality(sized) = 2

\* C6 (as claimed): a sweep that starts with the workspace as the sweep before
\* left it, the clock unchanged, deletes nothing.
C6_SecondSweepIsNoOp ==
    repeat # "no" => (ws = ws0 /\ deletedA = {} /\ deletedB = {})

\* cleanup_endpoint is running.
Sweeping == spc \in {"age_loop", "size_open", "size_loop"}

\* C7: whenever a sweep has returned an error and the task awaits its timer,
\* a new sweep starts later on, however many sweeps have failed before.
C7_FailedSweepDoesNotStopSweeper ==
    [](((last = "Err") /\ ~Sweeping) => <>Sweeping)

C7_Witness ==
    /\ failed = MaxFailed
    /\ last = "Err"
    /\ Sweeping

(* ----------------------------- requests ------------------------------- *)
\* Handlers whose call of process has returned.
Processed == { r \in Slots : req[r].pc = "done" /\ req[r].result # <<>> }

\* C8: what process returns is Completed iff the child was launched and has
\* exited, then with the exit code of the child, or -1001 when it has none;
\* it is Failure with the text of the launch error iff the launch failed;
\* it is always one of the two, under status 200.
C8_RunnerOutcome ==
    \A r \in Processed :
        LET result == req[r].result[1]
            response == req[r].response[1]
        IN  /\ Len(req[r].response) = 1
            /\ response.http = 200
            /\ response.id = req[r].id
            /\ response.status \in {"Completed", "Failure"}
            /\ (response.status = "Completed") <=> result.ok
            /\ result.ok =>
                  /\ response.reason = ""
                  /\ response.exit_code = IF result.code = {} THEN {0 - 1001} ELSE result.code
            /\ ~result.ok =>
                  /\ response.exit_code = {}
                  /\ response.reason = to_string(result.error)
                  /\ response.reason # ""

C8_Witness ==
    \E r \in Processed :
        /\ req[r].route = "run"
        /\ req[r].result[1].ok /\ req[r].result[1].code = {}
        /\ req[r].response[1].status = "Completed"
        /\ req[r].response[1].exit_code = {0 - 1001}

Unconfigured(r) ==
    \/ req[r].interpreter = "Bash" /\ bash_path = {}
    \/ req[r].interpreter = "Powershell" /\ powershell_path = {}

\* C10: a script for Bash or Powershell whose binary path is not configured
\* is answered with Failure "<Interpreter> not supported"; its handler
\* launches no process and writes nothing but the script file, which it
\* wrote before it resolved the interpreter.
C10_UnconfiguredInterpreter ==
    \A r \in Slots :
        (req[r].route = "runscript" /\ Unconfigured(r)) =>
            /\ req[r].launched = <<>>
            /\ req[r].pc \in {"dispatch", "done"}
            /\ req[r].wrote \in {<<>>, <<ScriptPath(req[r].id, req[r].interpreter)>>}
            /\ (req[r].pc = "done" /\ req[r].wrote # <<>>) =>
                  /\ req[r].response[1].status = "Failure"
                  /\ req[r].response[1].reason = req[r].interpreter \o " not supported"
                  /\ ScriptPath(req[r].id, req[r].interpreter) \in DOMAIN ws

C10_Witness ==
    \E r \in Slots :
        /\ req[r].route = "runscript" /\ req[r].interpreter = "Powershell"
        /\ powershell_path = {}
        /\ req[r].pc = "done"
        /\ req[r].wrote = <<ScriptPath(req[r].id, "Powershell")>>
        /\ req[r].response[1].reason = "Powershell not supported"
        /\ req[r].launched = <<>>

\* Handlers of /runscript whose write of the script file has failed.
WriteFailed == { r \in Slots : /\ req[r].route = "runscript"
                               /\ req[r].interpreter # ""
                               /\ req[r].wrote = <<>> }

\* C11: when the write of the script file fails the handler is done at
\* once, with Failure "Failed to write script data": it never reaches the
\* match on the interpreter and launches no process.
C11_WriteFailureEndsDispatch ==
    \A r \in WriteFailed :
        /\ req[r].pc = "done"
        /\ req[r].launched = <<>>
        /\ req[r].result = <<>>
        /\ req[r].response[1].status = "Failure"
        /\ req[r].response[1].reason = "Failed to write script data"
        /\ req[r].response[1].id = req[r].id

C11_Witness ==
    \E r \in WriteFailed :
        /\ req[r].interpreter = "Bash" /\ bash_path # {}
        /\ req[r].pc = "done"
        /\ req[r].response[1].reason = "Failed to write script data"

\* Handlers that have their response.
Answered == { r \in Slots : req[r].pc = "done" }
\* The request of handler r was malformed.
Malformed(r) == req[r].response[1].status = "Rejected"
\* Handler r wrote its script and the interpreter it names is not supported.
UnsupportedInterpreter(r) ==
    /\ req[r].route = "runscript"
    /\ req[r].wrote # <<>>
    /\ (Unconfigured(r) \/ (req[r].interpreter = "Cmd" /\ ~windows))

\* C12 (as claimed): a response has an error status only when the request
\* was malformed or the interpreter is not supported.
C12_ErrorStatusOnlyMalformedOrUnsupported ==
    \A r \in Answered :
        req[r].response[1].http # 200 => (Malformed(r) \/ UnsupportedInterpreter(r))

\* C12 (amended): a response has an error status exactly when the request
\* was malformed, the interpreter is not supported, or the script file could
\* not be written (status 500); a launch failure and every Completed outcome
\* are answered with status 200, a launch failure as Failure in the body.
C12_ErrorStatusAlsoOnWriteFailure ==
    \A r \in Answered :
        /\ (req[r].response[1].http # 200)
              <=> (Malformed(r) \/ UnsupportedInterpreter(r) \/ r \in WriteFailed)
        /\ r \in WriteFailed => req[r].response[1].http = 500
        /\ r \in Processed =>
              /\ req[r].response[1].http = 200
              /\ ~req[r].result[1].ok => req[r].response[1].status = "Failure"

C12_Witness ==
    \E r \in Processed :
        /\ req[r].route = "runscript"
        /\ ~req[r].result[1].ok
        /\ req[r].response[1].http = 200
        /\ req[r].response[1].status = "Failure"

\* Handlers of /runscript that are past the match on the interpreter.
Dispatched == { r \in Slots : /\ req[r].route = "runscript"
                              /\ req[r].wrote # <<>>
                              /\ req[r].pc \notin {"idle", "dispatch"} }

\* C13: a Cmd script on a build that is not for Windows is answered with
\* Failure and no process is launched for it; on Windows the script file
\* itself is launched as the program, without arguments.
C13_CmdOnlyOnWindows ==
    \A r \in Dispatched :
        req[r].interpreter = "Cmd" =>
            IF windows
            THEN /\ Len(req[r].launched) = 1
                 /\ req[r].launched[1].program = ScriptPath(req[r].id, "Cmd")
                 /\ req[r].launched[1].program = req[r].wrote[1]
                 /\ req[r].launched[1].args = <<>>
            ELSE /\ req[r].launched = <<>>
                 /\ req[r].result = <<>>
                 /\ req[r].pc = "done"
                 /\ req[r].response[1].status = "Failure"
                 /\ req[r].response[1].reason = "Cmd not supported on unix"

C13_Witness ==
    \E r \in Dispatched :
        /\ req[r].interpreter = "Cmd" /\ ~windows
        /\ req[r].launched = <<>>
        /\ req[r].response[1].status = "Failure"
        /\ ScriptPath(req[r].id, "Cmd") \in DOMAIN ws

\* The path of the script of handler r, and the command its interpreter is to
\* be launched with.
P(r) == <<"script", req[r].id,
          CASE req[r].interpreter = "Bash" -> "sh"
            [] req[r].interpreter = "Cmd" -> "bat"
            [] req[r].interpreter = "Powershell" -> "ps1">>
Expected(r) ==
    CASE req[r].interpreter = "Bash" ->
           { [program |-> b, args |-> <<Arg("--"), P(r)>>,
              current_dir |-> working_directory] : b \in bash_path }
      [] req[r].interpreter = "Powershell" ->
           { [program |-> b, args |-> <<Arg("-File"), P(r)>>,
              current_dir |-> working_directory] : b \in powershell_path }
      [] req[r].interpreter = "Cmd" ->
           IF windows
           THEN { [program |-> P(r), args |-> <<>>, current_dir |-> working_directory] }
           ELSE {}

\* C16: a handler of /runscript wrote P = script_<id>.<ext> and, when its
\* interpreter is supported, launches exactly one process: the configured
\* bash with ["--", P], the configured powershell with ["-File", P], or P
\* itself without arguments for Cmd, each in the working directory; when
\* the interpreter is not supported it launches none.
C16_InterpreterCommand ==
    \A r \in Dispatched :
        /\ req[r].wrote = <<P(r)>>
        /\ {req[r].launched[i] : i \in 1..Len(req[r].launched)} = Expected(r)
        /\ Len(req[r].launched) = Cardinality(Expected(r))

C16_Witness ==
    \E r \in Dispatched :
        /\ req[r].interpreter = "Bash"
        /\ req[r].launched = <<[program |-> Bin("bash"), args |-> <<Arg("--"), P(r)>>,
                                 current_dir |-> working_directory]>>
        /\ req[r].pc = "running"

\* Handlers of /runscript whose write of the script file succeeded.
Wrote == { r \in Slots : req[r].route = "runscript" /\ req[r].wrote # <<>> }

\* C15: with one request at a time and no sweep, the script file a handler
\* wrote holds the bytes of the request body, whatever the body is; the
\* child opens that file and finds those bytes; and when the body is echo of
\* a literal the child's stdout, and the stdout of the response when asked
\* for, is the literal followed by the line ending of the interpreter.
C15_ScriptRoundTrip ==
    \A r \in Wrote :
        LET h == req[r]
            literal == SubSeq(h.body, Len(Echo) + 1, Len(h.body))
            echoes == Len(h.body) > Len(Echo) /\ SubSeq(h.body, 1, Len(Echo)) = Echo
            eol == IF h.interpreter = "Bash" THEN <<10>> ELSE <<13, 10>>
        IN  /\ h.wrote[1] \in DOMAIN ws
            /\ ws[h.wrote[1]].data = h.body
            /\ h.exec # <<>> => (h.exec[1].found /\ h.exec[1].data = h.body)
            /\ (h.result # <<>> /\ echoes) =>
                  /\ h.result[1].ok => h.result[1].stdout = literal \o eol
                  /\ (h.result[1].ok /\ h.asked[1]) =>
                        h.response[1].stdout = {literal \o eol}

C15_Witness ==
    \E r \in Wrote :
        /\ req[r].interpreter = "Bash"
        /\ req[r].body = <<101, 99, 104, 111, 32, 72>>
        /\ req[r].pc = "done"
        /\ req[r].response[1].status = "Completed"
        /\ req[r].response[1].stdout = {<<72, 10>>}

(* ------------------------ retention, continued ------------------------ *)
\* The sum of the recursive sizes (dir_size) of the entries of dir.
RECURSIVE TotalSize(_, _)
TotalSize(dir, S) ==
    IF S = {} THEN 0
    ELSE LET x == CHOOSE y \in S : TRUE
         IN  dir_size(dir, x) + TotalSize(dir, S \ {x})

\* C17 (as claimed): after a sweep with max_size = M that returned Ok, nothing
\* but the sweeper having touched the workspace, the recursive sizes of the
\* entries that remain sum to at most M.
C17_RemainingWithinBudget ==
    (SweepOk /\ listed) => \A m \in max_size : TotalSize(ws, DOMAIN ws) <= m

\* C18 (as claimed): when the size pass of a sweep is over, no entry it
\* removed was modified later than an entry it left in place.
C18_NewestProtectedFirst ==
    (SweepReturned /\ listed) =>
        \A d \in deletedB : \A k \in DOMAIN ws :
            ~(ws0[d].modified > ws[k].modified)

(* --------------------- requests and sweeps together ------------------- *)
\* Script files of the working directory.
Scripts(dir) == { p \in DOMAIN dir : p[1] = "script" }

\* This step is one of the cleanup task and leaves every handler as it is.
SweeperStep == spc \in {"age_loop", "size_loop"} /\ req' = req

\* C14: the request path never deletes a script file. The write of a
\* dispatch puts script_<id>.<ext> into the workspace, and every step in which
\* a script file leaves the workspace is a step of a sweep that removes it
\* (no step of a handler, whatever its outcome: Completed, launch Failure or
\* unsupported interpreter); so the file is there when the dispatch returns
\* and afterwards, unless and until a sweep removes it.
C14_RequestPathNeverDeletes ==
    [][ /\ \A p \in Scripts(ws) :
             p \notin DOMAIN ws' => SweeperStep /\ p \in deletedA' \cup deletedB'
        /\ \A r \in Slots :
             req[r].pc = "idle" /\ req'[r].pc = "dispatch" =>
                 req'[r].wrote[1] \in DOMAIN ws' ]_vars

\* Dispatches with each outcome have returned, a sweep has run to its end
\* since, and their script files are in the workspace.
C14_Witness ==
    /\ SweepOk
    /\ \E r1, r2 \in Slots :
         /\ req[r1].pc = "done" /\ req[r1].response[1].status = "Completed"
         /\ req[r1].wrote # <<>> /\ req[r1].wrote[1] \in DOMAIN ws
         /\ req[r2].pc = "done" /\ req[r2].response[1].status = "Failure"
         /\ req[r2].wrote # <<>> /\ req[r2].wrote[1] \in DOMAIN ws
         /\ ws0 = ws

\* The handler in slot r has written its script and has not returned.
InFlight(r) ==
    /\ req[r].pc \in {"dispatch", "running", "executing", "hung"}
    /\ req[r].wrote # <<>>

\* C19: the sweeper spares no script file for being in use, so the race is
\* there: when a sweep has returned Ok, the script of a handler that has not
\* returned is in the workspace only if it is not older than max_age was at
\* the start of the sweep; an older one the sweep has deleted under the
\* handler, after the write and before or while the interpreter runs it.
C19_SweepSparesNoScriptInUse ==
    \A r \in Slots :
        InFlight(r) /\ SweepOk /\ req[r].wrote[1] \in DOMAIN ws =>
            \A a \in max_age : ~too_old(now, Modified(ws, req[r].wrote[1]), a)

\* One handler waits for an interpreter that has not opened its script yet,
\* another for one that has read its script, and the sweep that is running
\* has deleted the script of each after it was written.
C19_Witness ==
    \E r1, r2 \in Slots :
        /\ req[r1].pc = "running" /\ req[r1].wrote # <<>>
        /\ req[r1].wrote[1] \notin DOMAIN ws
        /\ req[r1].wrote[1] \in deletedA \cup deletedB
        /\ req[r2].pc = "executing" /\ req[r2].wrote # <<>>
        /\ req[r2].exec[1].found
        /\ req[r2].wrote[1] \notin DOMAIN ws
        /\ req[r2].wrote[1] \in deletedA \cup deletedB

\* The child of the handler in slot r is one that never exits.
Hung(r) == req[r].pc = "hung"

\* C20: a child that never exits blocks its own handler and nothing else.
\* Once the child of a handler hangs, that handler waits forever and never
\* has a response; every other handler whose child is one that exits goes on
\* to its response and returns; and the cleanup task goes on starting sweeps
\* and finishing them.
C20_HungChildBlocksOnlyItsHandler ==
    \A r \in Slots :
        /\ [](Hung(r) => [](Hung(r) /\ req[r].response = <<>>))
        /\ \A r2 \in Slots \ {r} :
              (Hung(r) /\ req[r2].pc = "executing") ~> (req[r2].pc = "idle")
        /\ (Hung(r) /\ spc = "tick") ~> (spc # "tick")
        /\ (Hung(r) /\ spc # "tick") ~> (spc = "tick")

\* A child hangs that had found its script; a sweep that began and ended
\* since has deleted that script, and another handler, which wrote its script
\* during that sweep, has its response.
C20_Witness ==
    \E r, r2 \in Slots :
        /\ Hung(r) /\ req[r].exec[1].found
        /\ req[r].wrote[1] \in deletedA \cup deletedB
        /\ SweepOk
        /\ r2 # r
        /\ req[r2].pc = "done" /\ req[r2].response[1].status = "Completed"
        /\ req[r2].wrote[1] \notin DOMAIN ws0

(* ------------------------ the server as a whole ----------------------- *)
\* C21: nothing is tried twice. A handler makes at most one launch attempt
\* and writes at most one file; after a failed launch it has its response and
\* the one attempt; after a failed write it has its response, no file and no
\* launch; and a sweep in which a deletion failed is over with that one
\* failure, the entry still there.
C21_NoRetries ==
    /\ \A r \in Slots :
         /\ Len(req[r].launched) <= 1
         /\ Len(req[r].wrote) <= 1
         /\ Len(req[r].result) <= 1
         /\ (req[r].result # <<>> /\ ~req[r].result[1].ok) =>
                (req[r].pc = "done" /\ Len(req[r].launched) = 1)
    /\ \A r \in WriteFailed : req[r].pc = "done" /\ req[r].launched = <<>>
    /\ failedDel # {} =>
         /\ spc = "tick" /\ last = "Err"
         /\ Cardinality(failedDel) = 1
         /\ failedDel \subseteq DOMAIN ws
         /\ deletedA \cap failedDel = {} /\ deletedB \cap failedDel = {}

\* A sweep has ended on a deletion that failed, a script has been written,
\* and the handler has its response after a launch that failed.
C21_Witness ==
    /\ failedDel # {}
    /\ \E r \in Slots :
         /\ req[r].pc = "done"
         /\ req[r].result # <<>> /\ ~req[r].result[1].ok
         /\ Scripts(ws) # {}

\* main has passed the creation of the working directory.
Started == mpc \in {"start_cleanup", "serve", "serving", "exited"}

\* C22: the working directory exists from the moment main has passed its
\* creation: in every state after that, whatever the sweeps have deleted
\* beneath it; and the cleanup task has started no sweep and no request has
\* been accepted before that moment.
C22_RootLifetime ==
    /\ Started => root
    /\ (spc # "tick" \/ last # "none") => (Started /\ mpc # "start_cleanup")
    /\ (served > 0 \/ \E r \in Slots : req[r].pc # "idle") => Started

\* Requests have been accepted and a sweep has deleted the last entry of the
\* working directory: the directory is empty and exists.
C22_Witness ==
    /\ mpc = "serving" /\ root
    /\ served > 0
    /\ SweepOk
    /\ deletedA \cup deletedB # {}
    /\ ws = <<>>

(* ------------------------ retention, once more ------------------------ *)
\* C23: a rule that is not set is not applied. With max_age unset a sweep
\* deletes nothing in its age pass; with max_size unset it lists nothing,
\* measures nothing and deletes nothing in a size pass; with both unset it
\* returns Ok and the workspace is as it was.
C23_UnsetRuleDisabled ==
    /\ max_age = {} => deletedA = {}
    /\ max_size = {} => (deletedB = {} /\ sized = {} /\ ~listed)
    /\ (max_age = {} /\ max_size = {}) => (ws = ws0 /\ last # "Err")

\* Neither rule is set and a sweep has returned over A, B, C: A is older
\* than any max_age of the model and the three exceed any max_size.
C23_Witness ==
    /\ max_age = {} /\ max_size = {}
    /\ SweepOk
    /\ ExampleABC(ws)
    /\ \A a \in UNION MaxAges : too_old(tickAt, Modified(ws, Artifact(1)), a)
    /\ \A m \in UNION MaxSizes : over_max(PrefixSize(ws, <<Artifact(3), Artifact(2), Artifact(1)>>, 3), m)

(* ------------------------- requests, continued ------------------------ *)
\* Handlers of /run that have called process.
Ran == { r \in Slots : req[r].route = "run" /\ req[r].launched # <<>> }

\* C24: the command a /run handler launches has the command of the request
\* as its program (no shell in between), the arguments of the request as
\* its arguments, as many, in the same order and unchanged, and the working
\* directory of the server as its directory.
C24_ArgumentsVerbatim ==
    \A r \in Ran :
        LET command == req[r].launched[1]
            argv == req[r].argv
        IN  /\ command.program = Bin(argv[1])
            /\ Len(command.args) = Len(argv) - 1
            /\ \A i \in 1..Len(command.args) : command.args[i] = Arg(argv[i + 1])
            /\ command.current_dir = working_directory

\* A request with two different arguments, the second one an option, has
\* been launched and its child has exited.
C24_Witness ==
    \E r \in Ran :
        /\ req[r].argv = <<"echo", "a", "-b">>
        /\ req[r].pc = "done"
        /\ req[r].result[1].ok

(* ---------------------- retention, the size pass ---------------------- *)
\* No two entries of dir have the same modification time.
DistinctTimes(dir) ==
    \A x, y \in DOMAIN dir : x # y => dir[x].modified # dir[y].modified

\* No metadata read and no removal fails on an entry of dir.
NoFaults(dir) == \A nm \in DOMAIN dir : dir[nm].fault = "none"

\* The procedure of the documentation of cleanup_endpoint: "removes oldest
\* directories until under limit of max_size": while the recursive sizes of
\* the entries exceed m, the oldest entry goes.
RECURSIVE Reference(_, _)
Reference(dir, m) ==
    IF TotalSize(dir, DOMAIN dir) <= m THEN dir
    ELSE LET oldest == CHOOSE x \in DOMAIN dir :
                           \A y \in DOMAIN dir : dir[x].modified <= dir[y].modified
         IN  Reference(Remove(dir, oldest), m)

\* C25 (as claimed): after a size pass over a workspace with distinct
\* modification times and no I/O fault, the entries left are those the
\* reference procedure leaves.
C25_SizePassIsReference ==
    (SweepOk /\ listed /\ max_age = {} /\ DistinctTimes(ws0) /\ NoFaults(ws0)) =>
        \A m \in max_size : DOMAIN ws = DOMAIN Reference(ws0, m)

(* ----------------------- retention, the age pass ---------------------- *)
\* C26 (as claimed): when the age pass meets an entry whose metadata cannot
\* be read it skips that entry and goes on: every other file or directory
\* that is older than max_age is removed in that sweep, the sweep does not
\* fail, and with max_size set it has gone through its size pass.
C26_UnreadableSkippedInAgePass ==
    (SweepReturned /\ max_age # {} /\ \E u \in DOMAIN ws0 : ws0[u].fault = "meta") =>
        /\ \A nm \in AgeDue(ws0) : nm \notin DOMAIN ws
        /\ last = "Ok"
        /\ max_size # {} => listed

(* ------------------------------ dir_size ------------------------------ *)
\* The size of a tree as the claim defines it: a regular file counts its
\* length, a directory the sum of its entries; a node whose metadata or
\* whose listing cannot be read, and a node that is neither a regular file
\* nor a directory, count zero.
RECURSIVE FilesUnder(_)
FilesUnder(n) ==
    IF ~n.meta THEN 0
    ELSE IF n.kind = "file" THEN n.len
    ELSE IF n.kind = "dir"
    THEN IF n.read < Len(n.kids) THEN 0
         ELSE SumSeq([i \in 1..Len(n.kids) |-> FilesUnder(n.kids[i])], Len(n.kids))
    ELSE 0

\* C27 (as claimed): what dir_size returns for a path is the sum of the
\* lengths of the regular files of the tree under it, unreadable nodes and
\* nodes that are neither file nor directory counting zero.
C27_RecursiveSize ==
    measured # {} => measured = {FilesUnder(tree)}

(* ------------------------ retention, both rules ----------------------- *)
\* C28: with both rules set the size pass comes after the age pass. While
\* the age pass runs nothing is listed, measured or deleted for size; the
\* listing of the size pass holds exactly the entries the age pass left; no
\* entry deleted for age has its size computed; and total_size_seen is the
\* sum of the sizes of the entries measured, none of them deleted for age.
C28_PhaseOrder ==
    (max_age # {} /\ max_size # {}) =>
        /\ spc = "age_loop" =>
              (~listed /\ sized = {} /\ deletedB = {} /\ total_size_seen = 0)
        /\ listed =>
              {entries[i] : i \in 1..Len(entries)} = (DOMAIN ws0) \ deletedA
        /\ sized \cap deletedA = {}
        /\ total_size_seen = TotalSize(ws0, sized)

\* A sweep with both rules has deleted an entry for its age, has then
\* measured entries and deleted one for size, and has returned Ok.
C28_Witness ==
    /\ max_age # {} /\ max_size # {}
    /\ SweepOk
    /\ deletedA # {} /\ deletedB # {} /\ sized # {}
    /\ DOMAIN ws # {}

(* ------------------------- the cleanup task --------------------------- *)
\* The phases of a sweep in their order.
Phase(p) ==
    CASE p = "age_loop" -> 1
      [] p = "size_open" -> 2
      [] p = "size_loop" -> 3
      [] p = "tick" -> 4

\* C29: sweeps do not overlap and no request starts one. While a sweep is
\* in progress none begins: its starting point stays, its phases only
\* advance and its loops only go forward, until it has returned; and a step
\* of a request handler changes nothing of the cleanup task, neither where
\* it is nor what it has done.
C29_OneSweepAtATime ==
    [][ /\ spc # "tick" =>
             /\ ws0' = ws0 /\ tickAt' = tickAt /\ now' = now
             /\ Phase(spc') >= Phase(spc)
             /\ rd' \subseteq rd
             /\ idx' >= idx
             /\ total_size_seen' >= total_size_seen
             /\ sized \subseteq sized' /\ deletedA \subseteq deletedA'
             /\ deletedB \subseteq deletedB' /\ failedDel \subseteq failedDel'
             /\ listed => listed'
        /\ reqVars' # reqVars =>
             UNCHANGED <<spc, now, rd, entries, idx, total_size_seen, last, failed,
                         ws0, listed, sized, deletedA, deletedB, failedDel, tickAt, repeat>>
      ]_vars

\* A second sweep is in its size pass, after the first one has returned,
\* while a handler waits for its child.
C29_Witness ==
    /\ spc = "size_loop"
    /\ last # "none"
    /\ \E r \in Slots : req[r].pc = "executing"

(* ------------------------ concurrent dispatches ----------------------- *)
\* Handlers that have written a script.
Writers == { r \in Slots : req[r].wrote # <<>> }

\* C30: dispatches do not get at each other's script. Two handlers whose
\* (id, interpreter) differ have written different paths; a step that
\* creates a script file or changes its content is the write of a handler
\* whose id and interpreter name that path, and puts that handler's body
\* there; the command of a handler names the path of its own id and
\* interpreter as its script, and its child opens the file at that path.
C30_DispatchIsolation ==
    [][ /\ \A r1, r2 \in Writers :
             <<req[r1].id, req[r1].interpreter>> # <<req[r2].id, req[r2].interpreter>>
                 => req[r1].wrote # req[r2].wrote
        /\ \A p \in Scripts(ws') :
             (p \notin DOMAIN ws \/ ws'[p] # ws[p]) =>
                 \E r \in Slots :
                     /\ req[r].pc = "idle" /\ req'[r].pc = "dispatch"
                     /\ p = ScriptPath(req'[r].id, req'[r].interpreter)
                     /\ req'[r].wrote = <<p>>
                     /\ ws'[p].data = req'[r].body
                     /\ \A r2 \in Slots \ {r} : req'[r2] = req[r2]
        /\ \A r \in Writers :
             LET own == ScriptPath(req[r].id, req[r].interpreter)
             IN  /\ req[r].wrote = <<own>>
                 /\ req[r].launched # <<>> => ScriptOf(req[r].launched[1]) = {own}
                 /\ (req[r].pc = "running" /\ req'[r].exec # <<>> /\ own \in DOMAIN ws) =>
                        req'[r].exec[1] = [found |-> TRUE, data |-> ws[own].data]
      ]_vars

\* Two dispatches with different ids and interpreters run at the same time:
\* both files are there, each child has read the body of its own request,
\* and the bodies differ.
C30_Witness ==
    \E r1, r2 \in Writers :
        /\ req[r1].id # req[r2].id
        /\ req[r1].interpreter # req[r2].interpreter
        /\ req[r1].body # req[r2].body
        /\ req[r1].pc = "executing" /\ req[r2].pc = "done"
        /\ req[r1].exec[1] = [found |-> TRUE, data |-> req[r1].body]
        /\ req[r2].wrote[1] \in DOMAIN ws
        /\ ws[req[r2].wrote[1]].data = req[r2].body
        /\ ws[req[r1].wrote[1]].data = req[r1].body

(* ------------------- retention, the newest entry ---------------------- *)
\* The entry of dir modified later than every other one, if there is one.
Newest(dir) ==
    { nm \in DOMAIN dir : \A x \in (DOMAIN dir) \ {nm} : dir[x].modified < dir[nm].modified }

\* C31 (as claimed): when the recursive size of the newest entry alone exceeds
\* max_size, a sweep of the size pass leaves no regular file and no
\* directory in the workspace (but one whose own removal fails).
C31_NewestAloneExceeds ==
    (SweepReturned /\ max_age = {}) =>
        \A m \in max_size : \A nm \in Newest(ws0) :
            dir_size(ws0, nm) > m =>
                \A x \in DOMAIN ws0 :
                    (ws0[x].kind \in {"file", "dir"} /\ ws0[x].fault # "delete")
                        => x \notin DOMAIN ws

(* ------------- retention, entries neither file nor directory ---------- *)
\* Entries of dir that DirEntry::file_type reports as neither a regular
\* file nor a directory.
Others(dir) == { nm \in DOMAIN dir : dir[nm].kind = "other" }

\* C32: an entry that is neither a regular file nor a directory is never
\* removed, in the age pass or in the size pass: it is in the workspace,
\* unchanged, at every point of the sweep, also when it is older than
\* max_age and when it lies where total_size_seen exceeds max_size; and the
\* sweep goes on past it: with no I/O fault the sweep returns Ok and has
\* removed every file and directory that is older than max_age or lies in
\* the listing where the bytes seen exceed max_size.
C32_OtherKindNeverRemoved ==
    /\ \A nm \in Others(ws0) : nm \in DOMAIN ws /\ ws[nm] = ws0[nm]
    /\ (deletedA \cup deletedB) \cap Others(ws0) = {}
    /\ (SweepReturned /\ Others(ws0) # {} /\ NoFaults(ws0)) =>
          /\ last = "Ok"
          /\ \A nm \in AgeDue(ws0) : nm \notin DOMAIN ws
          /\ max_size # {} =>
                /\ listed
                /\ Len(entries) = Cardinality((DOMAIN ws0) \ deletedA)
                /\ \A m \in max_size : \A i \in 1..Len(entries) :
                      ( /\ PrefixSize(ws0, entries, i) > m
                        /\ ws0[entries[i]].kind \in {"file", "dir"} )
                      => entries[i] \notin DOMAIN ws

\* A sweep with both rules has returned: an entry that is neither file nor
\* directory was older than max_age and was met in the listing behind the
\* point where the bytes seen exceeded max_size; it is still there, while an
\* entry as old was removed for its age and a newer one for the size.
C32_Witness ==
    /\ SweepOk /\ listed /\ max_age # {} /\ max_size # {}
    /\ deletedA # {} /\ deletedB # {}
    /\ \E i \in 1..Len(entries) :
          /\ entries[i] \in Others(ws0)
          /\ \E a \in max_age : too_old(now, Modified(ws0, entries[i]), a)
          /\ \E m \in max_size : PrefixSize(ws0, entries, i - 1) > m
          /\ \E d \in deletedA : Modified(ws0, d) = Modified(ws0, entries[i])
          /\ entries[i] \in DOMAIN ws

(* ------------------ retention, times in the future -------------------- *)
\* Entries of dir modified later than time t.
Future(dir, t) == { nm \in DOMAIN dir : Modified(dir, nm) > t }

\* C33: an entry whose modification time is later than the `now` of the
\* sweep has age zero, and the age pass does not delete it, whatever
\* max_age is (zero included).
C33_FutureEntryHasAgeZero ==
    \A nm \in Future(ws0, now) :
        /\ Age(now, Modified(ws0, nm)) = 0
        /\ \A a \in max_age : ~too_old(now, Modified(ws0, nm), a)
        /\ nm \notin deletedA
        /\ nm \in DOMAIN ws

\* A sweep with max_age zero has returned Ok: it removed an entry modified
\* before `now` and left one modified after `now`.
C33_Witness ==
    /\ SweepOk /\ max_age = {0} /\ now > 0
    /\ deletedA # {}
    /\ \E nm \in Future(ws0, now) : nm \in DOMAIN ws /\ ws0[nm].kind \in {"file", "dir"}

(* --------------------------- termination ------------------------------ *)
\* C34 (as claimed): a sweep ends because each pass takes each top-level
\* entry once and each walk of dir_size finds each node under its path at
\* most once. The formula is the part on the walk: no node is found by more
\* than one call of dir_size.
C34_WalkVisitsEachNodeOnce ==
    \A n \in DOMAIN visits : visits[n] <= 1

(* ---------------------------- determinism ----------------------------- *)
\* Bytes of the entries of S, by the recursive size each entry has.
RECURSIVE Bytes(_, _)
Bytes(dir, S) ==
    IF S = {} THEN 0
    ELSE LET x == CHOOSE y \in S : TRUE IN dir[x].size + Bytes(dir, S \ {x})

\* What the two rules leave of dir, from the policy and the modification
\* time and recursive size of each entry alone: the entries not older than
\* max_age at time t, and of these each one that, together with the newer
\* ones, holds at most max_size bytes.
Retained(dir, t, A, M) ==
    LET young == { nm \in DOMAIN dir : \A a \in A : ~too_old(t, Modified(dir, nm), a) }
        upTo(nm) == { x \in young : Modified(dir, x) >= Modified(dir, nm) }
    IN  { nm \in young : \A m \in M : Bytes(dir, upTo(nm)) <= m }

\* C35 (as claimed): when the modification times are pairwise distinct, the
\* entries a sweep retains are a function of the policy and of the
\* modification time and recursive size of each entry alone (the one the
\* two rules define), whatever the order in which the listings return the
\* entries.
C35_SweepDeterminism ==
    (SweepReturned /\ DistinctTimes(ws0)) =>
        DOMAIN ws = Retained(ws0, now, max_age, max_size)
====
